---- MODULE Spec2Model ----
(***************************************************************************)
(* Model of homework.py: a polling notifier.  main() validates three      *)
(* credentials, then loops forever: get_api_answer -> check_response ->   *)
(* parse_status(homeworks[0]) -> send_message, with the exception         *)
(* handlers of the cycle and an unconditional sleep in the finally block. *)
(*                                                                         *)
(* Python values are tagged records.  The Russian literals of the source  *)
(* are written transliterated, because strings here are ASCII.            *)
(***************************************************************************)
EXTENDS Integers, Sequences, FiniteSets, TLC

(***************************************************************************)
(* Bounds of the model.                                                    *)
(***************************************************************************)
MaxCycles == 3
MaxHomeworks == 2
MaxLongCycles == 4
StartTime == 1000

(***************************************************************************)
(* Program constants.                                                      *)
(***************************************************************************)
RETRY_TIME == 600
ENDPOINT == "https://practicum.yandex.ru/api/user_api/homework_statuses/"
HTTP_OK == 200

(***************************************************************************)
(* Python values.                                                          *)
(***************************************************************************)
None == [t |-> "none"]
Unbound == [t |-> "unbound"]
PyInt(n) == [t |-> "int", v |-> n]
PyStr(s) == [t |-> "str", v |-> s]
PyList(q) == [t |-> "list", v |-> q]
PyDict(d) == [t |-> "dict", v |-> d]

\* bool(x)
Truthy(x) ==
    CASE x.t = "none" -> FALSE
      [] x.t = "int" -> x.v # 0
      [] x.t = "str" -> x.v # ""
      [] x.t = "list" -> Len(x.v) > 0
      [] x.t = "dict" -> DOMAIN x.v # {}
      [] OTHER -> TRUE

\* str(x) as an f-string renders it
Format(x) ==
    CASE x.t = "none" -> "None"
      [] x.t = "int" -> ToString(x.v)
      [] x.t = "str" -> x.v
      [] OTHER -> "<object>"

\* d.get(key) of a dict
DictGet(d, key) == IF key \in DOMAIN d.v THEN d.v[key] ELSE None

(***************************************************************************)
(* Exceptions: a class name and the argument it was constructed with.     *)
(***************************************************************************)
NoExc == [cls |-> "none", msg |-> ""]
Exc(c, m) == [cls |-> c, msg |-> m]

\* The classes of exceptions.py: each derives directly from Exception.
CustomBases(c) ==
    CASE c = "SendMessageException" -> {"Exception"}
      [] c = "HTTPRequestError" -> {"Exception"}
      [] c = "AnotherEndpointException" -> {"Exception"}
      [] OTHER -> {}

\* The library and builtin classes the module imports or raises.
LibraryBases(c) ==
    CASE c = "JSONDecodeError" -> {"ValueError", "Exception"}
      [] c = "ConnectionError" -> {"RequestException", "OSError", "Exception"}
      [] c = "RequestException" -> {"OSError", "Exception"}
      [] c = "TelegramError" -> {"Exception"}
      [] c = "TypeError" -> {"Exception"}
      [] c = "KeyError" -> {"LookupError", "Exception"}
      [] c = "AttributeError" -> {"Exception"}
      [] c = "UnboundLocalError" -> {"NameError", "Exception"}
      [] c = "RuntimeError" -> {"Exception"}
      [] OTHER -> {}

\* isinstance(e, handler): what an except clause matches
IsInstance(e, handler) ==
    \/ e.cls = handler
    \/ handler \in CustomBases(e.cls)
    \/ handler \in LibraryBases(e.cls)

\* str(e): KeyError renders the repr of its argument, the others the argument
ExcStr(e) == IF e.cls = "KeyError" THEN "'" \o e.msg \o "'" ELSE e.msg

(***************************************************************************)
(* HOMEWORK_STATUSES                                                       *)
(***************************************************************************)
HOMEWORK_STATUSES ==
    [approved |-> "Rabota proverena: revyueru vsyo ponravilos. Ura!",
     reviewing |-> "Rabota vzyata na proverku revyuerom.",
     rejected |-> "Rabota proverena: u revyuera est zamechaniya."]

\* A call either returns a value or raises.
Return(x) == [ok |-> TRUE, val |-> x, exc |-> NoExc]
Raise(e) == [ok |-> FALSE, val |-> None, exc |-> e]

(***************************************************************************)
(* check_tokens: all((PRACTICUM_TOKEN, TELEGRAM_TOKEN, TELEGRAM_CHAT_ID)) *)
(***************************************************************************)
\* a variant that accepts the environment when any one credential is set
check_tokens_any(e) ==
    \/ Truthy(e.PRACTICUM_TOKEN)
    \/ Truthy(e.TELEGRAM_TOKEN)
    \/ Truthy(e.TELEGRAM_CHAT_ID)

check_tokens(e) ==
    /\ Truthy(e.PRACTICUM_TOKEN)
    /\ Truthy(e.TELEGRAM_TOKEN)
    /\ Truthy(e.TELEGRAM_CHAT_ID)

\* HEADERS = {'Authorization': f'OAuth {PRACTICUM_TOKEN}'}
HEADERS(e) == "{'Authorization': 'OAuth " \o Format(e.PRACTICUM_TOKEN) \o "'}"

(***************************************************************************)
(* send_message: bot.send_message either delivers (tg = "ok") or raises   *)
(* telegram.TelegramError, which is re-raised as SendMessageException.    *)
(***************************************************************************)
send_message(msg, tg) ==
    IF tg = "ok"
    THEN Return(None)
    ELSE Raise(Exc("SendMessageException",
                   "Oshibka pri otpravke soobshcheniya " \o tg))

(***************************************************************************)
(* get_api_answer.  net is what the network does with the one GET:        *)
(* kind "transport" (requests.get raises ConnectionError), "other"        *)
(* (requests.get raises something else) or "response" with a status code, *)
(* reason, text and a body (a decoded payload, or Undecodable).           *)
(***************************************************************************)
Undecodable == [t |-> "undecodable"]

\* a variant without the fallback to the current time
FromDateCursorOnly(current_timestamp, clock) == current_timestamp

\* timestamp = current_timestamp or int(time.time())
FromDate(current_timestamp, clock) ==
    IF Truthy(current_timestamp) THEN current_timestamp ELSE PyInt(clock)

\* what the try block of get_api_answer does (lines 59-74)
ApiTryBody(timestamp, net, e) ==
    CASE net.kind = "transport" -> Raise(Exc("ConnectionError", "connection refused"))
      [] net.kind = "other" -> Raise(Exc("RuntimeError", "unexpected"))
      [] OTHER ->
           IF net.status = HTTP_OK
           THEN IF net.body = Undecodable
                THEN Raise(Exc("JSONDecodeError", "Expecting value"))
                ELSE Return(net.body)
           ELSE Raise(Exc("HTTPRequestError",
                    "Nachinaem poisk oshibki"
                    \o "Proveryaem znachenie status_code: " \o ToString(net.status)
                    \o "Proveryaem znachenie reason: " \o net.reason
                    \o "Proveryaem znachenie soobshcheniya: " \o net.text
                    \o "Proveryaem ssylku endpoint-a: " \o ENDPOINT
                    \o "Proveryaem znachenie headers: " \o HEADERS(e)
                    \o "Proveryaem znacheniya params: {'from_date': "
                    \o Format(timestamp) \o "}"))

\* "raise error(...)" calls the caught exception instance, which is not callable
NotCallable(e) == Exc("TypeError", "'" \o e.cls \o "' object is not callable")

\* the except clauses of get_api_answer, in order (lines 75-82)
ApiHandlers(r) ==
    IF r.ok THEN r
    ELSE IF IsInstance(r.exc, "JSONDecodeError") THEN Raise(NotCallable(r.exc))
    ELSE IF IsInstance(r.exc, "RequestException") THEN Raise(NotCallable(r.exc))
    ELSE IF IsInstance(r.exc, "Exception")
         THEN Raise(Exc("AnotherEndpointException",
                        "Oshibka pri zaprose k " \o ENDPOINT \o ": " \o ExcStr(r.exc)))
    ELSE r

get_api_answer(current_timestamp, clock, net, e) ==
    ApiHandlers(ApiTryBody(FromDate(current_timestamp, clock), net, e))

(***************************************************************************)
(* check_response                                                          *)
(***************************************************************************)
check_response(resp) ==
    IF resp.t # "dict"
    THEN Raise(Exc("TypeError", "Otvet ne yavlyaetsya slovarem"))
    ELSE IF "homeworks" \notin DOMAIN resp.v
    THEN Raise(Exc("KeyError", "Klyucha homeworks ne sushchestvuet"))
    ELSE IF "current_date" \notin DOMAIN resp.v
    THEN Raise(Exc("KeyError", "Klyucha current_date ne sushchestvuet"))
    ELSE IF DictGet(resp, "homeworks").t # "list"
    THEN Raise(Exc("KeyError", "V homeworks lezhit ne spisok"))
    ELSE Return(DictGet(resp, "homeworks"))

(***************************************************************************)
(* parse_status                                                            *)
(***************************************************************************)
KnownStatus(st) == st.t = "str" /\ st.v \in DOMAIN HOMEWORK_STATUSES

\* a variant that formats whatever the lookup gives instead of raising
parse_status_lenient(homework) ==
    IF homework.t # "dict"
    THEN Raise(Exc("AttributeError", "object has no attribute 'get'"))
    ELSE LET homework_name == DictGet(homework, "homework_name")
             homework_status == DictGet(homework, "status")
         IN Return(PyStr("Izmenilsya status proverki raboty \""
                         \o Format(homework_name) \o "\". "
                         \o (IF KnownStatus(homework_status)
                             THEN HOMEWORK_STATUSES[homework_status.v]
                             ELSE "None")))

parse_status(homework) ==
    IF homework.t # "dict"
    THEN Raise(Exc("AttributeError", "object has no attribute 'get'"))
    ELSE LET homework_name == DictGet(homework, "homework_name")
             homework_status == DictGet(homework, "status")
         IN IF ~KnownStatus(homework_status)
            THEN Raise(Exc("KeyError",
                           "Status neizvesten: " \o Format(homework_status)))
            ELSE Return(PyStr("Izmenilsya status proverki raboty \""
                              \o Format(homework_name) \o "\". "
                              \o HOMEWORK_STATUSES[homework_status.v]))

(***************************************************************************)
(* Inputs: the environment, the homework records, the payloads and what   *)
(* the network and the chat service do.                                    *)
(***************************************************************************)
Tokens == {None, PyStr(""), PyStr("tok")}

Environments ==
    [PRACTICUM_TOKEN : Tokens, TELEGRAM_TOKEN : Tokens, TELEGRAM_CHAT_ID : Tokens]

Hw(name, status) == PyDict([homework_name |-> PyStr(name), status |-> PyStr(status)])

\* records that come first in the list
HomeworkRecords ==
    {Hw("proj1", "approved"), Hw("proj1", "reviewing"), Hw("proj1", "rejected"),
     Hw("proj1", "pending"), PyDict([homework_name |-> PyStr("proj1")])}

\* records that follow the first
OlderRecords == {Hw("proj2", "rejected")}

HomeworkLists ==
    {<<>>} \cup
    UNION {{<<h>> \o t : h \in HomeworkRecords, t \in [1..n -> OlderRecords]} :
               n \in 0..(MaxHomeworks - 1)}

\* current_date as the server may report it
Dates(clock) == {None, PyInt(0), PyInt(StartTime - 1), PyInt(clock)}

Payloads(clock) ==
    {PyList(<<>>), PyDict(<<>>),
     PyDict([current_date |-> PyInt(clock)]),
     PyDict([homeworks |-> PyList(<<>>)]),
     PyDict([homeworks |-> PyStr("notalist"), current_date |-> PyInt(clock)])}
    \cup {PyDict([homeworks |-> PyList(l), current_date |-> d]) :
              l \in HomeworkLists, d \in Dates(clock)}

Response(status, reason, text, body) ==
    [kind |-> "response", status |-> status, reason |-> reason,
     text |-> text, body |-> body]

NetOutcomes(clock) ==
    {[kind |-> "transport"], [kind |-> "other"],
     Response(503, "Service Unavailable", "", Undecodable),
     Response(HTTP_OK, "OK", "<html>", Undecodable)}
    \cup {Response(HTTP_OK, "OK", "json", p) : p \in Payloads(clock)}

\* a network that fails, answers 503, or reports nothing new or one record
NarrowOutcomes(clock) ==
    {[kind |-> "transport"],
     Response(503, "Service Unavailable", "", Undecodable),
     Response(HTTP_OK, "OK", "json",
              PyDict([homeworks |-> PyList(<<>>), current_date |-> PyInt(clock)])),
     Response(HTTP_OK, "OK", "json",
              PyDict([homeworks |-> PyList(<<Hw("proj1", "approved")>>),
                      current_date |-> PyInt(clock)]))}

ChatOutcomes == {"ok", "TelegramError"}

(***************************************************************************)
(* State.                                                                  *)
(***************************************************************************)
VARIABLES
    env,                \* PRACTICUM_TOKEN, TELEGRAM_TOKEN, TELEGRAM_CHAT_ID
    pc,                 \* position of main()
    clock,              \* int(time.time())
    current_timestamp,  \* locals of main()
    old_message,
    response,
    homeworks,
    message,
    error,              \* the exception raised in the try block, being handled
    raised,             \* the exception leaving a handler, pending in finally
    cyc,                \* what the current cycle has done so far
    prev,               \* what the previous cycle did
    lastStatus,         \* the last status notification delivered to the chat
    lastDelivered,      \* the last message of any kind delivered to the chat
    unsent              \* the status messages whose last send failed

vars == <<env, pc, clock, current_timestamp, old_message, response, homeworks,
          message, error, raised, cyc, prev, lastStatus, lastDelivered,
          unsent>>

\* what the chat has seen
history == <<lastStatus, lastDelivered, unsent>>

locals == <<current_timestamp, old_message, response, homeworks, message>>

NoCycle ==
    [n |-> 0, cursor0 |-> Unbound, old0 |-> Unbound, from_date |-> Unbound,
     net |-> "", fetches |-> 0, derived |-> None, failed |-> "",
     diag |-> None, run |-> 0, sends |-> <<>>, sleeps |-> 0]

\* what the network did with the GET: "transport", "other", "status" (a
\* response that is not 200), "undecodable" or "ok"
NetClass(net) ==
    IF net.kind # "response" THEN net.kind
    ELSE IF net.status # HTTP_OK THEN "status"
    ELSE IF net.body = Undecodable THEN "undecodable"
    ELSE "ok"

NewCycle(n, cursor, old, from, net) ==
    [n |-> n, cursor0 |-> cursor, old0 |-> old, from_date |-> from,
     net |-> NetClass(net), fetches |-> 1, derived |-> None, failed |-> "",
     diag |-> None, run |-> 0, sends |-> <<>>, sleeps |-> 0]

\* what is kept of a cycle once the next one has begun
Summary(c) ==
    [n |-> c.n, derived |-> c.derived, failed |-> c.failed, diag |-> c.diag,
     run |-> c.run, sends |-> c.sends, sleeps |-> c.sleeps]

\* the cycle reached the catch-all handler with the diagnostic text msg; run
\* counts the cycles right before it that did so with the same text
Diagnosed(c, p, msg) ==
    [c EXCEPT !.diag = msg, !.run = IF p.diag = msg THEN p.run + 1 ELSE 0]

\* one call of send_message: its argument, its purpose and whether it delivered
SendCall(text, kind, tg) == [text |-> text, kind |-> kind, ok |-> (tg = "ok")]

Init ==
    /\ env \in Environments
    /\ pc = "start"
    /\ clock = StartTime
    /\ current_timestamp = Unbound
    /\ old_message = Unbound
    /\ response = Unbound
    /\ homeworks = Unbound
    /\ message = Unbound
    /\ error = NoExc
    /\ raised = NoExc
    /\ cyc = NoCycle
    /\ prev = Summary(NoCycle)
    /\ lastStatus = None
    /\ lastDelivered = None
    /\ unsent = {}

(***************************************************************************)
(* main(), lines 117-122                                                   *)
(***************************************************************************)
StartupExit ==
    /\ pc = "start"
    /\ ~check_tokens(env)
    /\ pc' = "exited"
    /\ UNCHANGED <<env, clock, locals, error, raised, cyc, prev, history>>

StartupEnter ==
    /\ pc = "start"
    /\ check_tokens(env)
    /\ current_timestamp' = PyInt(clock)
    /\ old_message' = PyStr("")
    /\ pc' = "loop"
    /\ UNCHANGED <<env, clock, response, homeworks, message, error, raised,
                   cyc, prev, history>>

(***************************************************************************)
(* line 125: response = get_api_answer(current_timestamp)                  *)
(***************************************************************************)
FetchOn(outcomes, limit) ==
    /\ pc = "loop"
    /\ cyc.n < limit
    /\ \E net \in outcomes :
         LET r == get_api_answer(current_timestamp, clock, net, env)
             c == NewCycle(cyc.n + 1, current_timestamp, old_message,
                           FromDate(current_timestamp, clock), net)
         IN IF r.ok
            THEN /\ response' = r.val
                 /\ error' = NoExc
                 /\ cyc' = c
                 /\ pc' = "check"
            ELSE /\ response' = response
                 /\ error' = r.exc
                 /\ cyc' = [c EXCEPT !.failed = "fetch"]
                 /\ pc' = "except"
    /\ prev' = Summary(cyc)
    /\ UNCHANGED <<env, clock, current_timestamp, old_message, homeworks,
                   message, raised, history>>

Fetch == FetchOn(NetOutcomes(clock), MaxCycles)

\* the same call in longer runs against a network with few behaviours
FetchNarrow == FetchOn(NarrowOutcomes(clock), MaxLongCycles)

(***************************************************************************)
(* line 126: homeworks = check_response(response)                          *)
(***************************************************************************)
\* a variant that advances the cursor as soon as the response is validated
CheckAdvancing ==
    /\ pc = "check"
    /\ LET r == check_response(response)
       IN IF r.ok
          THEN /\ homeworks' = r.val
               /\ current_timestamp' = DictGet(response, "current_date")
               /\ pc' = "notify"
               /\ UNCHANGED <<error, cyc>>
          ELSE /\ homeworks' = homeworks
               /\ current_timestamp' = current_timestamp
               /\ error' = r.exc
               /\ cyc' = [cyc EXCEPT !.failed = "check"]
               /\ pc' = "except"
    /\ UNCHANGED <<env, clock, old_message, response, message, raised, prev,
                   history>>

Check ==
    /\ pc = "check"
    /\ LET r == check_response(response)
       IN IF r.ok
          THEN /\ homeworks' = r.val
               /\ pc' = "notify"
               /\ UNCHANGED <<error, cyc>>
          ELSE /\ homeworks' = homeworks
               /\ error' = r.exc
               /\ cyc' = [cyc EXCEPT !.failed = "check"]
               /\ pc' = "except"
    /\ UNCHANGED <<env, clock, current_timestamp, old_message, response,
                   message, raised, prev, history>>

(***************************************************************************)
(* lines 127-134: the rest of the try block                                *)
(***************************************************************************)
\* a variant that takes homeworks[-1]
LastHomework(hws) == hws.v[Len(hws.v)]

\* homeworks[0]
FirstHomework(hws) == hws.v[1]

\* a variant without the comparison with old_message
StatusChangedAlways(msg, old) == TRUE

\* line 129: message != old_message
StatusChanged(msg, old) == msg # old

\* a variant that reads a key the response does not have
NewCursorWrongKey(resp) == DictGet(resp, "date_updated")

\* line 132: response.get('current_date')
NewCursor(resp) == DictGet(resp, "current_date")

\* a variant that advances the cursor when the list is empty
NothingNewAdvancing ==
    /\ current_timestamp' = NewCursor(response)
    /\ pc' = "finally"
    /\ UNCHANGED <<old_message, message, error, cyc, history>>

\* line 127 false: the list is empty
NothingNew ==
    /\ pc' = "finally"
    /\ UNCHANGED <<current_timestamp, old_message, message, error, cyc,
                   history>>

\* line 128 raises
ParseFailed(e) ==
    /\ error' = e
    /\ cyc' = [cyc EXCEPT !.failed = "parse"]
    /\ pc' = "except"
    /\ UNCHANGED <<current_timestamp, old_message, message, history>>

\* a variant that records the message as old_message before it is sent
SendStatusEager(msg, tg) ==
    LET s == send_message(msg, tg)
    IN /\ message' = msg
       /\ old_message' = msg
       /\ IF s.ok
          THEN /\ current_timestamp' = NewCursor(response)
               /\ lastStatus' = msg
               /\ lastDelivered' = msg
               /\ unsent' = unsent \ {msg}
               /\ error' = error
               /\ cyc' = [cyc EXCEPT !.derived = msg,
                            !.sends = Append(@, SendCall(msg, "status", tg))]
               /\ pc' = "finally"
          ELSE /\ error' = s.exc
               /\ cyc' = [cyc EXCEPT !.derived = msg, !.failed = "send",
                            !.sends = Append(@, SendCall(msg, "status", tg))]
               /\ pc' = "except"
               /\ unsent' = unsent \cup {msg}
               /\ UNCHANGED <<current_timestamp, lastStatus, lastDelivered>>

\* lines 130-132
SendStatus(msg, tg) ==
    LET s == send_message(msg, tg)
    IN /\ message' = msg
       /\ IF s.ok
          THEN /\ old_message' = msg
               /\ current_timestamp' = NewCursor(response)
               /\ lastStatus' = msg
               /\ lastDelivered' = msg
               /\ unsent' = unsent \ {msg}
               /\ error' = error
               /\ cyc' = [cyc EXCEPT !.derived = msg,
                            !.sends = Append(@, SendCall(msg, "status", tg))]
               /\ pc' = "finally"
          ELSE /\ error' = s.exc
               /\ cyc' = [cyc EXCEPT !.derived = msg, !.failed = "send",
                            !.sends = Append(@, SendCall(msg, "status", tg))]
               /\ pc' = "except"
               /\ unsent' = unsent \cup {msg}
               /\ UNCHANGED <<old_message, current_timestamp, lastStatus,
                              lastDelivered>>

\* a variant that advances the cursor although nothing was sent
SameStatusAdvancing(msg) ==
    /\ message' = msg
    /\ current_timestamp' = NewCursor(response)
    /\ cyc' = [cyc EXCEPT !.derived = msg]
    /\ pc' = "finally"
    /\ UNCHANGED <<old_message, error, history>>

\* lines 133-134
SameStatus(msg) ==
    /\ message' = msg
    /\ cyc' = [cyc EXCEPT !.derived = msg]
    /\ pc' = "finally"
    /\ UNCHANGED <<current_timestamp, old_message, error, history>>

Notify ==
    /\ pc = "notify"
    /\ IF ~Truthy(homeworks)
       THEN NothingNew
       ELSE LET p == parse_status(FirstHomework(homeworks))
            IN IF ~p.ok
               THEN ParseFailed(p.exc)
               ELSE IF StatusChanged(p.val, old_message)
                    THEN \E tg \in ChatOutcomes : SendStatus(p.val, tg)
                    ELSE SameStatus(p.val)
    /\ UNCHANGED <<env, clock, response, homeworks, raised, prev>>

(***************************************************************************)
(* lines 138-152: the except clauses of the cycle                          *)
(***************************************************************************)
\* lines 141-145: response is main()'s local, the payload of the last
\* successful fetch or not yet bound; neither has .url
HandleHTTPRequestError ==
    /\ raised' = IF response = Unbound
                 THEN Exc("UnboundLocalError", "response")
                 ELSE Exc("AttributeError", "object has no attribute 'url'")
    /\ error' = NoExc
    /\ UNCHANGED <<current_timestamp, old_message, message, cyc, history>>

\* line 148
Diagnostic(e) == PyStr("Sboy v rabote programmy: " \o ExcStr(e))

\* a variant without the comparison with old_message
DiagChangedAlways(msg, old) == TRUE

\* line 149: message != old_message
DiagChanged(msg, old) == msg # old

\* a variant that records the diagnostic as old_message before it is sent
SendDiagnosticEager(msg, tg) ==
    LET s == send_message(msg, tg)
    IN /\ cyc' = [Diagnosed(cyc, prev, msg) EXCEPT
                      !.sends = Append(@, SendCall(msg, "diag", tg))]
       /\ old_message' = msg
       /\ IF s.ok
          THEN /\ lastDelivered' = msg
               /\ raised' = raised
          ELSE /\ lastDelivered' = lastDelivered
               /\ raised' = s.exc

\* lines 150-152
SendDiagnostic(msg, tg) ==
    LET s == send_message(msg, tg)
    IN /\ cyc' = [Diagnosed(cyc, prev, msg) EXCEPT
                      !.sends = Append(@, SendCall(msg, "diag", tg))]
       /\ IF s.ok
          THEN /\ old_message' = msg
               /\ lastDelivered' = msg
               /\ raised' = raised
          ELSE /\ old_message' = old_message
               /\ lastDelivered' = lastDelivered
               /\ raised' = s.exc

\* lines 147-152
CatchAll ==
    LET msg == Diagnostic(error)
    IN /\ message' = msg
       /\ error' = NoExc
       /\ IF DiagChanged(msg, old_message)
          THEN \E tg \in ChatOutcomes : SendDiagnostic(msg, tg)
          ELSE /\ cyc' = Diagnosed(cyc, prev, msg)
               /\ UNCHANGED <<old_message, raised, lastDelivered>>
       /\ UNCHANGED <<current_timestamp, lastStatus, unsent>>

\* a variant without the handler of lines 138-140: the failed send falls
\* through to the catch-all handler
HandleSendFailureAsGeneric == CatchAll

\* lines 138-140
HandleSendMessageException ==
    /\ error' = NoExc
    /\ UNCHANGED <<current_timestamp, old_message, message, raised, cyc,
                   history>>

Except ==
    /\ pc = "except"
    /\ IF IsInstance(error, "SendMessageException")
       THEN HandleSendMessageException
       ELSE IF IsInstance(error, "HTTPRequestError")
            THEN HandleHTTPRequestError
            ELSE CatchAll
    /\ pc' = "finally"
    /\ UNCHANGED <<env, clock, response, homeworks, prev>>

(***************************************************************************)
(* lines 154-155: finally: time.sleep(RETRY_TIME); an exception that left *)
(* a handler then leaves the loop and main()                               *)
(***************************************************************************)
\* a variant with the sleep after the try statement instead of in finally:
\* an exception that leaves a handler skips it
SleepAfterTry ==
    /\ pc = "finally"
    /\ IF raised # NoExc
       THEN /\ pc' = "crashed"
            /\ UNCHANGED <<clock, cyc>>
       ELSE /\ clock' = clock + RETRY_TIME
            /\ cyc' = [cyc EXCEPT !.sleeps = @ + 1]
            /\ pc' = "loop"
    /\ UNCHANGED <<env, locals, error, raised, prev, history>>

Finally ==
    /\ pc = "finally"
    /\ clock' = clock + RETRY_TIME
    /\ cyc' = [cyc EXCEPT !.sleeps = @ + 1]
    /\ pc' = IF raised # NoExc THEN "crashed" ELSE "loop"
    /\ UNCHANGED <<env, locals, error, raised, prev, history>>

Next ==
    \/ StartupExit
    \/ StartupEnter
    \/ Fetch
    \/ Check
    \/ Notify
    \/ Except
    \/ Finally

Spec == Init /\ [][Next]_vars

NextLong ==
    \/ StartupExit
    \/ StartupEnter
    \/ FetchNarrow
    \/ Check
    \/ Notify
    \/ Except
    \/ Finally

SpecLong == Init /\ [][NextLong]_vars

TypeOK ==
    /\ pc \in {"start", "exited", "loop", "check", "notify", "except",
               "finally", "crashed"}
    /\ cyc.n \in 0..(MaxCycles + MaxLongCycles)
    /\ Len(cyc.sends) <= 1

(***************************************************************************)
(* Properties.                                                             *)
(***************************************************************************)
\* the finally block of the current cycle has run
EndOfCycle == cyc.n >= 1 /\ cyc.sleeps = 1

\* the cycle's fetch, validation or status lookup failed
FailedBeforeSend == cyc.failed \in {"fetch", "check", "parse"}

\* the calls of send_message of a cycle that delivered
Delivered(c) == SelectSeq(c.sends, LAMBDA x : x.ok)

\* the message the template gives for a record with a known status
Verdict(st) ==
    CASE st = PyStr("approved") -> HOMEWORK_STATUSES.approved
      [] st = PyStr("reviewing") -> HOMEWORK_STATUSES.reviewing
      [] st = PyStr("rejected") -> HOMEWORK_STATUSES.rejected
      [] OTHER -> "<no verdict>"

Template(homework) ==
    PyStr("Izmenilsya status proverki raboty \""
          \o Format(DictGet(homework, "homework_name")) \o "\". "
          \o Verdict(DictGet(homework, "status")))

\* C1: once the loop is entered no failed cycle terminates the process:
\* main() never ends with an exception that escaped a cycle.
C1_NoCycleTerminatesProcess == pc # "crashed"

\* C2: the cursor never decreases from one step to the next, whatever
\* current_date the server reports.
C2_CursorNeverDecreases ==
    [][(current_timestamp.t = "int" /\ current_timestamp'.t = "int")
          => current_timestamp'.v >= current_timestamp.v]_vars

\* C3: in a cycle whose fetch, validation or status lookup failed the cursor
\* has, from the failure to the end of the cycle, the value it had at the
\* start of the cycle.
C3_CursorUnchangedOnFailure ==
    (cyc.n >= 1 /\ FailedBeforeSend) => current_timestamp = cyc.cursor0

C3_Witness ==
    /\ EndOfCycle
    /\ pc = "loop"
    /\ cyc.failed = "parse"
    /\ DictGet(response, "current_date") # current_timestamp
    /\ current_timestamp = cyc.cursor0

\* two consecutive completed cycles that both passed fetch and validation
\* and derived the same message
SameMessageTwice ==
    /\ EndOfCycle
    /\ prev.n >= 1
    /\ prev.derived # None
    /\ prev.derived = cyc.derived

\* C4 as stated: two consecutive cycles that derive the identical message
\* call send_message exactly once across both.
C4_ExactlyOneSendAcrossBoth ==
    SameMessageTwice => Len(prev.sends) + Len(cyc.sends) = 1

\* C4 amended: when the first of the two cycles delivers the message the
\* second makes no call (one call across both); when the message already
\* equalled old_message neither cycle calls send_message; when the first
\* call failed the second cycle calls again; the message is never delivered
\* by both cycles.
C4_NoResendAfterDelivery ==
    SameMessageTwice =>
        /\ Len(Delivered(prev)) = 1 =>
               (Len(prev.sends) = 1 /\ Len(cyc.sends) = 0)
        /\ Len(prev.sends) = 0 => Len(cyc.sends) = 0
        /\ (Len(prev.sends) = 1 /\ Len(Delivered(prev)) = 0) =>
               Len(cyc.sends) = 1
        /\ Len(Delivered(prev)) + Len(Delivered(cyc)) <= 1

C4_Witness ==
    /\ SameMessageTwice
    /\ Len(Delivered(prev)) = 1
    /\ Len(cyc.sends) = 0
    /\ cyc.failed = ""

\* one of the three credentials is absent or empty
AnyMissing ==
    \/ env.PRACTICUM_TOKEN \in {None, PyStr("")}
    \/ env.TELEGRAM_TOKEN \in {None, PyStr("")}
    \/ env.TELEGRAM_CHAT_ID \in {None, PyStr("")}

\* C5: with a credential absent or empty main() stays before the loop (it
\* can only exit) and no fetch and no send is ever made; with all three
\* present it never exits at startup, it enters the loop.
C5_FatalStartup ==
    /\ AnyMissing =>
          /\ pc \in {"start", "exited"}
          /\ cyc = NoCycle
          /\ current_timestamp = Unbound
    /\ ~AnyMissing => pc # "exited"

C5_Witness ==
    /\ pc = "exited"
    /\ env.PRACTICUM_TOKEN = PyStr("tok")
    /\ env.TELEGRAM_TOKEN = PyStr("tok")
    /\ env.TELEGRAM_CHAT_ID = PyStr("")

\* the cycle delivered a status notification
StatusDelivered ==
    /\ cyc.n >= 1
    /\ Len(cyc.sends) = 1
    /\ cyc.sends[1].kind = "status"
    /\ cyc.sends[1].ok

\* C6: when the derived message differs from old_message and its send
\* succeeds, from then to the end of the cycle old_message is the message
\* derived from the first record and the cursor is the current_date of the
\* cycle's response.
C6_SentUpdatesBoth ==
    StatusDelivered =>
        /\ cyc.sends[1].text # cyc.old0
        /\ cyc.sends[1].text = Template(homeworks.v[1])
        /\ old_message = cyc.sends[1].text
        /\ current_timestamp = response.v.current_date

C6_Witness ==
    /\ EndOfCycle
    /\ StatusDelivered
    /\ current_timestamp # cyc.cursor0
    /\ old_message # cyc.old0

\* the cycle passed fetch and validation and derived old_message again
SameAsLast ==
    /\ cyc.n >= 1
    /\ cyc.failed = ""
    /\ cyc.derived # None
    /\ cyc.derived = cyc.old0

\* C7 as stated: when the derived message equals old_message nothing is
\* sent and the cursor is advanced to the response's current_date.
C7_CursorAdvancesWithoutSend ==
    SameAsLast =>
        /\ cyc.sends = <<>>
        /\ current_timestamp = response.v.current_date

\* C7 amended: when the derived message equals old_message nothing is sent
\* and the cursor and old_message keep their values; the cursor changes only
\* in a cycle that delivered a status notification.
C7_CursorKeptWithoutSend ==
    /\ SameAsLast =>
          /\ cyc.sends = <<>>
          /\ current_timestamp = cyc.cursor0
          /\ old_message = cyc.old0
    /\ (cyc.n >= 1 /\ current_timestamp # cyc.cursor0) => StatusDelivered

C7_Witness ==
    /\ EndOfCycle
    /\ SameAsLast
    /\ response.v.current_date # current_timestamp
    /\ response.v.current_date.t = "int"

\* C8: in a cycle whose fetch, validation or status lookup failed
\* send_message is not called and old_message keeps its value.
C8_FailureOnlyLogged ==
    (cyc.n >= 1 /\ FailedBeforeSend) =>
        /\ cyc.sends = <<>>
        /\ old_message = cyc.old0

\* a step that delivers a status notification
DeliversStatus ==
    /\ cyc'.n >= 1
    /\ cyc'.sends # cyc.sends
    /\ Len(cyc'.sends) = 1
    /\ cyc'.sends[1].kind = "status"
    /\ cyc'.sends[1].ok

\* C9: a status notification is delivered only when its text differs from
\* the status notification delivered last before it.
C9_NoRepeatedStatus ==
    [][DeliversStatus => cyc'.sends[1].text # lastStatus]_vars

\* C10: when the list is non-empty and the message derived from its first
\* record differs from old_message, send_message is called exactly once in
\* the cycle, with the template filled from homeworks[0].
C10_OneSendOfFirstRecord ==
    (/\ cyc.n >= 1
     /\ pc \in {"except", "finally", "loop", "crashed"}
     /\ cyc.failed \in {"", "send"}
     /\ homeworks.v # <<>>
     /\ Template(homeworks.v[1]) # cyc.old0) =>
        /\ Len(cyc.sends) = 1
        /\ cyc.sends[1].kind = "status"
        /\ cyc.sends[1].text = Template(homeworks.v[1])

C10_Witness ==
    /\ EndOfCycle
    /\ cyc.failed \in {"", "send"}
    /\ Len(homeworks.v) = 2
    /\ Len(cyc.sends) = 1
    /\ cyc.sends[1].text = Template(homeworks.v[1])
    /\ KnownStatus(DictGet(homeworks.v[2], "status"))
    /\ Template(homeworks.v[2]) # Template(homeworks.v[1])

\* parse_status has been applied to homeworks[0] in the current cycle
Parsed ==
    /\ cyc.n >= 1
    /\ pc \in {"except", "finally", "loop", "crashed"}
    /\ cyc.failed \in {"parse", "send", ""}
    /\ homeworks.v # <<>>

\* the template with a name and a verdict sentence written out
Sentence(name, verdict) ==
    PyStr("Izmenilsya status proverki raboty \"" \o name \o "\". " \o verdict)

\* C11: for a record whose status is approved, reviewing or rejected
\* parse_status gives the template with the record's name and that status's
\* own verdict sentence; for any other status, a missing one included, it
\* raises the unknown-status KeyError and gives no message.
C11_ParseStatusMapping ==
    Parsed =>
        LET hw == homeworks.v[1]
            name == Format(DictGet(hw, "homework_name"))
            st == DictGet(hw, "status")
        IN /\ st = PyStr("approved") =>
                 cyc.derived = Sentence(name,
                     "Rabota proverena: revyueru vsyo ponravilos. Ura!")
           /\ st = PyStr("reviewing") =>
                 cyc.derived = Sentence(name,
                     "Rabota vzyata na proverku revyuerom.")
           /\ st = PyStr("rejected") =>
                 cyc.derived = Sentence(name,
                     "Rabota proverena: u revyuera est zamechaniya.")
           /\ st \in {PyStr("approved"), PyStr("reviewing"), PyStr("rejected")}
                 => cyc.failed # "parse"
           /\ st \notin {PyStr("approved"), PyStr("reviewing"), PyStr("rejected")}
                 => /\ cyc.failed = "parse"
                    /\ cyc.derived = None
                    /\ cyc.sends = <<>> \/ cyc.sends[1].kind = "diag"
                    /\ pc = "except" =>
                          error = Exc("KeyError",
                                      "Status neizvesten: " \o Format(st))

C11_Witness ==
    /\ Parsed
    /\ pc = "except"
    /\ "status" \notin DOMAIN homeworks.v[1].v
    /\ error = Exc("KeyError", "Status neizvesten: None")

\* the errors check_response raises for a payload that is not a mapping, that
\* lacks homeworks, that lacks current_date, whose homeworks is not a list
NotAMapping == Exc("TypeError", "Otvet ne yavlyaetsya slovarem")
MissingHomeworksKey == Exc("KeyError", "Klyucha homeworks ne sushchestvuet")
MissingCurrentDateKey == Exc("KeyError", "Klyucha current_date ne sushchestvuet")
HomeworksNotAList == Exc("KeyError", "V homeworks lezhit ne spisok")

\* C12: check_response rejects, in this order and each with an error of its
\* own, a payload that is not a mapping, an empty mapping, a mapping without
\* homeworks, a mapping without current_date and a mapping whose homeworks
\* is not a list; any other payload gives its homeworks unmodified.
C12_DistinctValidationErrors ==
    /\ (pc = "except" /\ cyc.failed = "check") =>
          IF response.t # "dict" THEN error = NotAMapping
          ELSE IF DOMAIN response.v = {}
               THEN error \notin {NoExc, NotAMapping, MissingHomeworksKey,
                                  MissingCurrentDateKey, HomeworksNotAList}
          ELSE IF "homeworks" \notin DOMAIN response.v
               THEN error = MissingHomeworksKey
          ELSE IF "current_date" \notin DOMAIN response.v
               THEN error = MissingCurrentDateKey
          ELSE response.v.homeworks.t # "list" /\ error = HomeworksNotAList
    /\ pc = "notify" =>
          /\ response.t = "dict"
          /\ {"homeworks", "current_date"} \subseteq DOMAIN response.v
          /\ homeworks = response.v.homeworks
          /\ homeworks.t = "list"

\* C13: get_api_answer surfaces a response that is not 200 as
\* HTTPRequestError, a transport failure as a transport error, an
\* undecodable body as a decode error and only any other failure as
\* AnotherEndpointException; a decodable 200 response gives the payload.
C13_FetchErrorKinds ==
    /\ (pc = "except" /\ cyc.failed = "fetch") =>
          CASE cyc.net = "status" -> error.cls = "HTTPRequestError"
            [] cyc.net = "transport" -> IsInstance(error, "RequestException")
            [] cyc.net = "undecodable" -> IsInstance(error, "JSONDecodeError")
            [] OTHER -> cyc.net = "other" /\ error.cls = "AnotherEndpointException"
    /\ pc = "check" => (cyc.net = "ok" /\ error = NoExc)

\* C14: every cycle, whatever its outcome, ends with exactly one sleep of
\* RETRY_TIME: none has happened while the cycle runs, one has happened
\* when the loop is back at its head or main() has been left by an
\* exception, and every earlier cycle was followed by one before the next
\* fetch.
C14_OneSleepPerCycle ==
    cyc.n >= 1 =>
        /\ pc \in {"check", "notify", "except", "finally"} =>
              (cyc.sleeps = 0 /\ clock = StartTime + (cyc.n - 1) * RETRY_TIME)
        /\ pc \in {"loop", "crashed"} =>
              (cyc.sleeps = 1 /\ clock = StartTime + cyc.n * RETRY_TIME)
        /\ pc \in {"check", "notify", "except", "finally", "loop", "crashed"}
        /\ prev.n = cyc.n - 1
        /\ prev.n >= 1 => prev.sleeps = 1

C14_Witness ==
    /\ pc = "crashed"
    /\ cyc.n = 2
    /\ cyc.sleeps = 1
    /\ prev.sleeps = 1
    /\ clock = StartTime + 2 * RETRY_TIME

\* the status send of the current cycle failed
StatusSendFailed == cyc.n >= 1 /\ cyc.failed = "send"

\* C15: when send_message fails on a status notification the failure is
\* handled as SendMessageException, old_message and the cursor keep the
\* values of the start of the cycle, no second (diagnostic) send is made
\* and main() goes on; and whenever a later cycle derives a message whose
\* last send failed, it calls send_message with it again.
C15_FailedSendKeepsStateAndRetries ==
    /\ [](StatusSendFailed =>
            /\ old_message = cyc.old0
            /\ current_timestamp = cyc.cursor0
            /\ Len(cyc.sends) = 1
            /\ cyc.sends[1].kind = "status"
            /\ ~cyc.sends[1].ok
            /\ cyc.derived \in unsent
            /\ raised = NoExc
            /\ pc \in {"except", "finally", "loop"}
            /\ pc = "except" => error.cls = "SendMessageException")
    /\ [][(pc = "notify" /\ cyc'.derived \in unsent) =>
            /\ Len(cyc'.sends) = 1
            /\ cyc'.sends[1].kind = "status"
            /\ cyc'.sends[1].text = cyc'.derived]_vars

C15_Witness ==
    /\ pc = "loop"
    /\ prev.failed = "send"
    /\ Len(prev.sends) = 1
    /\ ~prev.sends[1].ok
    /\ cyc.derived = prev.derived
    /\ Len(cyc.sends) = 1
    /\ cyc.sends[1].text = prev.sends[1].text
    /\ cyc.sends[1].ok
    /\ old_message = cyc.derived
    /\ unsent = {}

\* C16: from the entry into the loop on, old_message is the text of the
\* last message send_message delivered, status or diagnostic, and the empty
\* string while none has been delivered.
C16_OldMessageIsLastDelivered ==
    pc \notin {"start", "exited"} =>
        old_message = IF lastDelivered = None THEN PyStr("") ELSE lastDelivered

C16_Witness ==
    /\ pc = "loop"
    /\ cyc.n = 3
    /\ Len(cyc.sends) = 1
    /\ ~cyc.sends[1].ok
    /\ Len(prev.sends) = 1
    /\ prev.sends[1].kind = "diag"
    /\ prev.sends[1].ok
    /\ old_message = prev.sends[1].text
    /\ lastStatus \notin {None, old_message}

\* the value of int(time.time()) when the current cycle made its fetch
FetchTime == StartTime + (cyc.n - 1) * RETRY_TIME

\* C17 as stated: every fetch sends from_date equal to the cursor, whatever
\* value the cursor has, 0 and None included.
C17_FromDateIsCursor ==
    cyc.n >= 1 => cyc.from_date = cyc.cursor0

\* C17 amended: a fetch sends from_date equal to the cursor when the cursor
\* is a non-zero integer, and equal to the current time when the cursor is
\* 0 or None.
C17_FromDateIsCursorOrNow ==
    cyc.n >= 1 =>
        /\ (cyc.cursor0.t = "int" /\ cyc.cursor0.v # 0) =>
              cyc.from_date = cyc.cursor0
        /\ cyc.cursor0 \in {None, PyInt(0)} =>
              cyc.from_date = PyInt(FetchTime)
        /\ cyc.cursor0.t \in {"int", "none"}

C17_Witness ==
    /\ pc = "check"
    /\ cyc.n = 3
    /\ cyc.cursor0 = None
    /\ cyc.from_date = PyInt(clock)
    /\ clock = StartTime + 2 * RETRY_TIME

\* C18: a cycle makes exactly one fetch and at most one call of
\* send_message, and a cycle begins only at the head of the loop, after the
\* sleep of the cycle before it and with no exception pending.
C18_OneFetchAtMostOneSend ==
    /\ [](cyc.n >= 1 =>
            /\ cyc.fetches = 1
            /\ Len(cyc.sends) <= 1
            /\ Len(prev.sends) <= 1
            /\ prev.n = cyc.n - 1)
    /\ [][cyc'.n # cyc.n =>
            /\ cyc'.n = cyc.n + 1
            /\ pc = "loop"
            /\ raised = NoExc /\ error = NoExc
            /\ cyc.n >= 1 => cyc.sleeps = 1]_vars

C18_Witness ==
    /\ pc = "check"
    /\ cyc.n = 2
    /\ cyc.fetches = 1
    /\ prev.failed = "send"
    /\ Len(prev.sends) = 1
    /\ prev.sleeps = 1

\* the cycle passed fetch and validation with an empty list of homeworks
EmptyList ==
    /\ cyc.n >= 1
    /\ pc \in {"finally", "loop"}
    /\ cyc.failed = ""
    /\ homeworks = PyList(<<>>)

\* C20: when fetch and validation succeed and the list is empty, nothing is
\* sent and old_message and the cursor keep the values of the start of the
\* cycle.
C20_EmptyListChangesNothing ==
    EmptyList =>
        /\ cyc.sends = <<>>
        /\ cyc.derived = None
        /\ old_message = cyc.old0
        /\ current_timestamp = cyc.cursor0
        /\ raised = NoExc

C20_Witness ==
    /\ EmptyList
    /\ pc = "loop"
    /\ response.v.current_date.t = "int"
    /\ response.v.current_date # current_timestamp
    /\ old_message # PyStr("")

\* the current cycle reached the catch-all handler with the diagnostic text
\* of the cycle before it
RepeatedDiagnostic == cyc.n >= 2 /\ cyc.run >= 1

\* C19 as stated: in a run of consecutive cycles that reach the catch-all
\* handler with the identical diagnostic text, the first cycle sends the
\* diagnostic and the later ones send nothing.
C19_FirstOfRunSends ==
    RepeatedDiagnostic =>
        /\ cyc.sends = <<>>
        /\ prev.run = 0 => Len(Delivered(prev)) = 1

\* C19 amended: the later cycles of such a run send nothing; the first one
\* sends the diagnostic unless the text already equals old_message, and
\* then no cycle of the run sends it.  A cycle in the catch-all handler
\* sends exactly when its text differs from old_message.
C19_DiagnosticDeduplicated ==
    /\ RepeatedDiagnostic =>
          /\ cyc.sends = <<>>
          /\ old_message = cyc.diag
          /\ old_message = cyc.old0
          /\ \/ prev.sends = <<>>
             \/ /\ Len(prev.sends) = 1
                /\ prev.sends[1] = [text |-> cyc.diag, kind |-> "diag", ok |-> TRUE]
    /\ (cyc.n >= 1 /\ cyc.diag # None) =>
          /\ cyc.sends = <<>> <=> cyc.diag = cyc.old0
          /\ cyc.sends # <<>> =>
                (Len(cyc.sends) = 1 /\ cyc.sends[1].kind = "diag"
                    /\ cyc.sends[1].text = cyc.diag)

C19_Witness ==
    /\ RepeatedDiagnostic
    /\ pc = "loop"
    /\ prev.run = 0
    /\ Len(prev.sends) = 1
    /\ prev.sends[1].kind = "diag"
    /\ prev.sends[1].ok
    /\ cyc.sends = <<>>
    /\ old_message = prev.sends[1].text

====
